---- MODULE Spec2Model ----
(***************************************************************************)
(* The data-integrity pipeline of the IoT backend:                         *)
(*   app/routes/iot.py          register_device, upload_iot_data,          *)
(*                              store_hash_on_chain, get_device_address    *)
(*   app/services/signature.py  verify_signature, DEVICE_PUBLIC_KEYS       *)
(*   app/services/ipfs.py       upload_to_ipfs                             *)
(*   app/services/blockchain.py BlockchainService                          *)
(*   iot_device/device_simulator.py  sign_data                             *)
(*                                                                         *)
(* Scheduling.  upload_iot_data is a coroutine (async def) whose body has  *)
(* no await: the event loop that runs it cannot start another upload       *)
(* before it returns, so the variable loop holds the one upload that is    *)
(* running.  register_device is a plain def, which the framework runs on   *)
(* a worker thread: its two dictionary writes interleave with each other   *)
(* and with the steps of the running upload.  The content store and the    *)
(* ledger node are the environment: every network call either answers or   *)
(* raises, and the ledger mines pending transactions on its own.           *)
(***************************************************************************)
EXTENDS Integers, Sequences, FiniteSets, TLC

\* ------------------------------------------------------------------ bounds
MaxRequests == 2
MaxRegisters == 2

Requests == 1..MaxRequests
Registers == 1..MaxRegisters

\* ------------------------------------------------------------ input values
\* Device ids a register call may carry (any string, also the empty one) and
\* the ones an IoTData object may carry (its validator demands the IOT- prefix).
RegisterIds == {"", "IOT-A", "IOT-B"}
IoTDataIds == {"IOT-A", "IOT-B"}

\* Public key strings.  pk1 and pk2 are the uncompressed hex encodings of the
\* verifying keys of sk1 and sk2; "short" is a string of fewer than 64
\* characters; "" is the empty string.
PrivateKeys == {"sk1", "sk2"}
PublicKeyStrings == {"", "short", "pk1", "pk2"}

pubkey_hex(sk) == IF sk = "sk1" THEN "pk1" ELSE "pk2"

MinKeyHexLen == 64

KeyHexLen(k) ==
    CASE k = "" -> 0
      [] k = "short" -> 10
      [] OTHER -> 130

\* A dict is the sequence of its (key, value) items in insertion order.
P1 == << <<"temperature", 22>>, <<"humidity", 60>> >>
P2 == << <<"temperature", 23>>, <<"humidity", 60>> >>
\* The reading each device sends in its uploads.
Reading(device_id) == IF device_id = "IOT-A" THEN P1 ELSE P2

Absent == "<absent>"
None == <<>>
Some(x) == <<x>>

\* Payloads of a single upload.  P1r has the items of P1 inserted in the
\* other order; P2 differs from P1 in one value and P1k in one key; P3 and P3r
\* carry the same nested mapping, built in two orders.
P1r == << <<"humidity", 60>>, <<"temperature", 22>> >>
P1k == << <<"temperature", 22>>, <<"pressure", 60>> >>
P3 == << <<"temperature", 22>>, <<"location", << <<"x", 1>>, <<"y", 2>> >> >> >>
P3r == << <<"temperature", 22>>, <<"location", << <<"y", 2>>, <<"x", 1>> >> >> >>
WidePayloads == {P1, P1r, P2, P1k, P3, P3r}

\* The keys whose value is itself a mapping.
NestedKeys == {"location"}

\* Key strings of 64 characters or more that are no verifying key: one that
\* is not hexadecimal and one whose length fits no point encoding.
WideKeyStrings == {"short", "pk1", "pk2", "nothex", "badlen"}

\* ------------------------------------------------------- canonical encoding
\* The order of str on the keys that occur in the payloads.
KeyRank(k) ==
    CASE k = "humidity" -> 1
      [] k = "location" -> 2
      [] k = "pressure" -> 3
      [] k = "temperature" -> 4
      [] OTHER -> 5

RECURSIVE InsertItem(_, _)
InsertItem(item, sortedItems) ==
    IF sortedItems = <<>> THEN <<item>>
    ELSE IF KeyRank(item[1]) <= KeyRank(Head(sortedItems)[1])
         THEN <<item>> \o sortedItems
         ELSE <<Head(sortedItems)>> \o InsertItem(item, Tail(sortedItems))

\* sorted(data.items()): the items by key; a value that is a mapping stays as
\* it was built
RECURSIVE sorted_items(_)
sorted_items(data) ==
    IF data = <<>> THEN <<>>
    ELSE InsertItem(Head(data), sorted_items(Tail(data)))

\* A verifier that encodes the items in the order it received them.
data_bytes_unsorted(data) == <<"str", data>>

\* signature.py: data_bytes = str(sorted(data.items())).encode()
data_bytes(data) == <<"str", sorted_items(data)>>

\* device_simulator.py: serialized = str(sorted(data.items())).encode()
serialized(data) == <<"str", sorted_items(data)>>

\* routes/iot.py: data_bytes = str(sorted(data.items())).encode()
chain_data_bytes(data) == <<"str", sorted_items(data)>>

\* hashlib.sha256(b).digest(), an injective function of the bytes
sha256(b) == <<"sha256", b>>

\* json.dumps(data).encode(): the items in insertion order
json_bytes(data) == <<"json", data>>

\* The content identifier the store derives from the stored bytes.
CidOf(bytes) == <<"cid", bytes>>

\* ---------------------------------------------------------------- signing
\* A signature string: who signed which digest, and what became of the base64
\* text: whole ("ok"); cut by a multiple of four characters ("cut4": it
\* decodes to too few bytes); cut elsewhere ("cut1": it does not decode); one
\* character replaced so that a byte of the signature changes ("flipped"); the
\* last character before the padding replaced by one that differs from it only
\* in the four bits the decoder drops ("padbits").
sign_data(private_key, data) ==
    [signer |-> private_key, digest |-> sha256(serialized(data)), b64 |-> "ok"]

Truncated(signature, how) == [signature EXCEPT !.b64 = how]

\* base64.b64decode(signature): None when it raises
b64decode(signature) ==
    IF signature.b64 = "cut1" THEN None
    ELSE Some([signer |-> signature.signer, digest |-> signature.digest,
               whole |-> signature.b64 \in {"ok", "padbits", "flipped"},
               intact |-> signature.b64 \in {"ok", "padbits"}])

\* VerifyingKey.from_string(bytes.fromhex(pubkey), curve=SECP256k1): None when
\* it raises
VerifyingKeyFromString(pubkey) ==
    IF pubkey \in {"pk1", "pk2"} THEN Some(pubkey) ELSE None

\* A check of the signed digest that does not look at who signed.
vk_verify_any_signer(vk, sig_bytes, data_hash) ==
    /\ sig_bytes.whole
    /\ sig_bytes.intact
    /\ sig_bytes.digest = data_hash

\* vk.verify(sig_bytes, data_hash): FALSE stands for BadSignatureError
vk_verify(vk, sig_bytes, data_hash) ==
    /\ sig_bytes.whole
    /\ sig_bytes.intact
    /\ pubkey_hex(sig_bytes.signer) = vk
    /\ sig_bytes.digest = data_hash

\* The exception the body of the try raises, "" when it raises none.
Raised(pubkey, data, signature) ==
    LET data_hash == sha256(data_bytes(data))
        vk == VerifyingKeyFromString(pubkey)
        sig_bytes == b64decode(signature)
    IN  IF vk = None
        THEN (IF pubkey = "nothex" THEN "ValueError" ELSE "MalformedPointError")
        ELSE IF sig_bytes = None THEN "binascii.Error"
        ELSE IF vk_verify(vk[1], sig_bytes[1], data_hash) THEN ""
        ELSE "BadSignatureError"

\* A handler for the signature error alone.
CaughtBadSignatureOnly(exc) == exc = "BadSignatureError"

\* except (BadSignatureError, Exception): every exception is an Exception
Caught(exc) == TRUE

\* What a call of verify_signature does: it returns True or False, or raises.
verify_result(keys, device_id, data, signature) ==
    LET pubkey == keys[device_id] IN
    IF pubkey = Absent \/ pubkey = "" \/ KeyHexLen(pubkey) < MinKeyHexLen
    THEN "False"
    ELSE LET exc == Raised(pubkey, data, signature)
         IN  IF exc = "" THEN "True"
             ELSE IF Caught(exc) THEN "False"
             ELSE "raise"

verify_signature(keys, device_id, data, signature) ==
    verify_result(keys, device_id, data, signature) = "True"

\* The signature strings a request may carry for its data.
SignaturesFor(data) ==
    {sign_data(sk, data) : sk \in PrivateKeys}
        \cup {Truncated(sign_data("sk1", data), "cut4")}

\* Every signature string: any key, any signed payload, any fate of the text.
SignatureForms == {"ok", "cut4", "cut1", "flipped", "padbits"}
WideSignatures ==
    {[sign_data(sk, data) EXCEPT !.b64 = how] :
        sk \in PrivateKeys, data \in WidePayloads, how \in SignatureForms}
\* ------------------------------------------------------------------- state
VARIABLES
    device_registry,     \* routes/iot.py: device_registry, a dict id -> key
    DEVICE_PUBLIC_KEYS,  \* services/signature.py: DEVICE_PUBLIC_KEYS
    contract_abi,        \* the function names of the loaded contract interface
    reg,                 \* the register calls: arguments and position
    req,                 \* the upload requests: arguments, position, results
    backlog,             \* the uploads received and not yet started
    loop,                \* the upload the event loop is running, 0 when idle
    ipfs_store,          \* the content store: the byte strings it holds
    pending,             \* the ledger node: submitted, not yet mined
    chain,               \* the ledger: mined transactions with their status
    service,             \* routes/iot.py: blockchain_service, its configuration
                         \* and whether its construction has succeeded
    lookup               \* the last get_data_hash call: index and outcome

vars == <<device_registry, DEVICE_PUBLIC_KEYS, contract_abi, reg, req, backlog,
          loop, ipfs_store, pending, chain, service, lookup>>

\* The signing account of the service (config.account_address).
account_address == "0xACCOUNT"

\* Web3.is_address: the strings that are 20-byte hex addresses.
IsAddress(s) == s \in {account_address, "0xDEVICE", "0xCONTRACT"}

\* Web3.to_checksum_address of an address
to_checksum_address(s) == <<"checksum", s>>

get_device_address(device_id) ==
    IF IsAddress(device_id) THEN to_checksum_address(device_id)
    ELSE to_checksum_address(account_address)

\* The two contract interfaces of the repository: the one the service calls
\* and the one app/config.py declares.
ServiceAbi == {"storeDataHash", "getDataHash"}
ConfigAbi == {"storeData", "getData"}

\* ------------------------------------------------------- BlockchainService()
\* The environment the service is constructed from: BLOCKCHAIN_RPC_URL,
\* CONTRACT_ADDRESS, ACCOUNT_ADDRESS, the file at CONTRACT_ABI_PATH (the
\* interface the service calls, the one app/config.py declares, no file, a
\* file that is not JSON) and whether the node answers.
ProviderUrls == {"http://node", "node:8545"}
ContractAddresses == {"0xCONTRACT", "not-an-address"}
AccountAddresses == {account_address, "not-an-address"}
AbiFiles == {"service", "config", "missing", "badjson"}

Configs ==
    [provider_url : ProviderUrls, contract_address : ContractAddresses,
     account_address : AccountAddresses, abi_file : AbiFiles, node_up : BOOLEAN]

\* v.startswith(('http://', 'https://', 'ws://', 'wss://'))
ValidProviderUrl(url) == url = "http://node"

\* json.load(abi_file): the function names of the interface in the file
AbiOf(abi_file) == IF abi_file = "service" THEN ServiceAbi ELSE ConfigAbi

\* A constructor that does not ask the node whether it is connected.
ConstructErrorNodeUnchecked(cfg) ==
    IF ~ValidProviderUrl(cfg.provider_url) THEN "ValidationError"
    ELSE IF ~IsAddress(cfg.contract_address) \/ ~IsAddress(cfg.account_address)
    THEN "ValidationError"
    ELSE IF cfg.abi_file = "missing" THEN "FileNotFoundError"
    ELSE IF cfg.abi_file = "badjson" THEN "ValidationError"
    ELSE ""

\* The exception BlockchainService() raises, "" when it raises none: the
\* validators of BlockchainConfig, load_abi, then w3.is_connected().
ConstructError(cfg) ==
    IF ~ValidProviderUrl(cfg.provider_url) THEN "ValidationError"
    ELSE IF ~IsAddress(cfg.contract_address) \/ ~IsAddress(cfg.account_address)
    THEN "ValidationError"
    ELSE IF cfg.abi_file = "missing" THEN "FileNotFoundError"
    ELSE IF cfg.abi_file = "badjson" THEN "ValidationError"
    ELSE IF ~cfg.node_up THEN "ConnectionError"
    ELSE ""

\* The service constructed from a configuration without fault.
Constructed(abi_file) ==
    [status |-> "up", error |-> "",
     config |-> [provider_url |-> "http://node", contract_address |-> "0xCONTRACT",
                 account_address |-> account_address, abi_file |-> abi_file,
                 node_up |-> TRUE]]

NoResponse == [status_code |-> 0, detail |-> "", device_id |-> "",
               ipfs_cid |-> None, tx_hash |-> None]

ErrorResponse(code, text) == [NoResponse EXCEPT !.status_code = code, !.detail = text]

NewRequest ==
    [pc |-> "new", device_id |-> "", data |-> <<>>, signature |-> None,
     device_address |-> None, data_hash |-> None,
     log |-> <<>>, cid |-> None, nonce |-> None, tx |-> None,
     receipt |-> None, ipfs_calls |-> 0, nonce_reads |-> 0, tx_sends |-> 0,
     error |-> "", response |-> NoResponse]

NewRegister == [pc |-> "new", device_id |-> "", public_key |-> ""]

Terminal == {"Completed", "Rejected_unregistered", "Rejected_bad_signature",
             "Failed_storage", "Failed_ledger"}

\* The state in which the application serves: the modules are imported and
\* blockchain_service is constructed.
Init ==
    /\ device_registry = [d \in RegisterIds |-> Absent]
    /\ DEVICE_PUBLIC_KEYS = [d \in RegisterIds |-> Absent]
    /\ \E abi_file \in {"service", "config"} :
          /\ contract_abi = AbiOf(abi_file)
          /\ service = Constructed(abi_file)
    /\ lookup = None
    /\ reg = [i \in Registers |-> NewRegister]
    /\ req = [r \in Requests |-> NewRequest]
    /\ backlog = 0
    /\ loop = 0
    /\ ipfs_store = {}
    /\ pending = {}
    /\ chain = <<>>

\* --------------------------------------------------------- register_device
\* A check of the device id alone would let an empty key through.
InvalidRegisterIdOnly(d, k) == d = ""

\* if not req.device_id or not req.public_key: raise HTTPException(400)
InvalidRegisterRequest(d, k) == d = "" \/ k = ""

\* A registry that keeps the first key of a device (dict.setdefault).
StoreKeyIfAbsent(map, d, k) == IF map[d] = Absent THEN [map EXCEPT ![d] = k] ELSE map

\* map[d] = k: the item assignment of a dict
StoreKey(map, d, k) == [map EXCEPT ![d] = k]

\* The check of the arguments and the first write, device_registry[id] = key.
\* A refused call keeps its arguments: they are what the 400 answers to.
RegisterBegin(i) ==
    /\ reg[i].pc = "new"
    /\ i > 1 => reg[i - 1].pc # "new"
    /\ \E d \in RegisterIds, k \in PublicKeyStrings :
          IF InvalidRegisterRequest(d, k)
          THEN /\ reg' = [reg EXCEPT ![i] = [pc |-> "error_400", device_id |-> d,
                                              public_key |-> k]]
               /\ UNCHANGED device_registry
          ELSE /\ reg' = [reg EXCEPT ![i] = [pc |-> "wrote_registry", device_id |-> d,
                                              public_key |-> k]]
               /\ device_registry' = StoreKey(device_registry, d, k)
    /\ UNCHANGED <<DEVICE_PUBLIC_KEYS, contract_abi, service, lookup, req, backlog, loop,
                   ipfs_store, pending, chain>>

\* A register call that returns without its second write.
RegisterFinishSkipsKeys(i) ==
    /\ reg[i].pc = "wrote_registry"
    /\ reg' = [reg EXCEPT ![i] = [NewRegister EXCEPT !.pc = "done"]]
    /\ UNCHANGED <<device_registry, DEVICE_PUBLIC_KEYS, contract_abi, service, lookup, req,
                   backlog, loop, ipfs_store, pending, chain>>

\* The second write, DEVICE_PUBLIC_KEYS[id] = key, and the return, with which
\* the arguments of the call are gone.
RegisterFinish(i) ==
    /\ reg[i].pc = "wrote_registry"
    /\ DEVICE_PUBLIC_KEYS' =
          StoreKey(DEVICE_PUBLIC_KEYS, reg[i].device_id, reg[i].public_key)
    /\ reg' = [reg EXCEPT ![i] = [NewRegister EXCEPT !.pc = "done"]]
    /\ UNCHANGED <<device_registry, contract_abi, service, lookup, req, backlog, loop,
                   ipfs_store, pending, chain>>
\* --------------------------------------------------------- upload_iot_data
\* A handler run on worker threads would start whatever the loop is doing.
LoopAlwaysFree == TRUE

\* The event loop can take up a request only when no coroutine is running.
LoopFree == loop = 0

\* One step of request r: its record becomes rec; reaching a terminal state
\* is the return (or the HTTPException) that gives the event loop back.
Advance(r, rec) ==
    /\ req' = [req EXCEPT ![r] = rec]
    /\ loop' = IF rec.pc \in Terminal /\ loop = r THEN 0 ELSE loop

Logged(rec, stage, result) ==
    [rec EXCEPT !.log = Append(@, [stage |-> stage, result |-> result])]

\* The uploads started so far.
Started == {r \in Requests : req[r].pc # "new"}

\* A device posts an upload: the server holds it until the event loop is free.
ReceiveUpload ==
    /\ Cardinality(Started) + backlog < MaxRequests
    /\ backlog' = backlog + 1
    /\ UNCHANGED <<device_registry, DEVICE_PUBLIC_KEYS, contract_abi, service, lookup, reg, req,
                   loop, ipfs_store, pending, chain>>

\* The event loop takes up a waiting upload: the body is parsed into an
\* IoTData object and the handler starts.
StartUpload(r) ==
    /\ LoopFree
    /\ backlog > 0
    /\ req[r].pc = "new"
    /\ r > 1 => req[r - 1].pc # "new"
    /\ \E d \in IoTDataIds :
         \E sig \in SignaturesFor(Reading(d)) :
            req' = [req EXCEPT ![r] = [@ EXCEPT !.pc = "Received",
                                                !.device_id = d,
                                                !.data = Reading(d),
                                                !.signature = Some(sig)]]
    /\ backlog' = backlog - 1
    /\ loop' = r
    /\ UNCHANGED <<device_registry, DEVICE_PUBLIC_KEYS, contract_abi, service, lookup, reg,
                   ipfs_store, pending, chain>>

\* Handlers that log the failure of a stage and go on, or try the stage again.
AfterUnregisteredGoesOn == "Authenticated"
AfterBadSignatureGoesOn == "Verified"
AfterUploadErrorGoesOn == "Stored"
AfterUploadErrorRetries == "Verified"
AfterAnchorErrorRetries == "Stored"
\* A handler that lets the exception of the content store escape.
AfterUploadErrorEscapes == "Unhandled"

\* Where the handler goes when a stage fails: each raises an HTTPException.
AfterUnregistered == "Rejected_unregistered"
AfterBadSignature == "Rejected_bad_signature"
AfterUploadError == "Failed_storage"
AfterAnchorError == "Failed_ledger"

\* if iot_data.device_id not in device_registry: raise 401
CheckRegistry(r) ==
    /\ req[r].pc = "Received"
    /\ IF device_registry[req[r].device_id] = Absent
       THEN Advance(r, [Logged(req[r], "registry", "fail") EXCEPT
                           !.pc = AfterUnregistered,
                           !.response = ErrorResponse(401, "Device not registered")])
       ELSE Advance(r, [Logged(req[r], "registry", "ok") EXCEPT
                           !.pc = "Authenticated"])
    /\ UNCHANGED <<device_registry, DEVICE_PUBLIC_KEYS, contract_abi, service, lookup, reg,
                   backlog, ipfs_store, pending, chain>>

\* A verification that drops the key of a device whose signature is bad.
VerifySignatureEvicts(r) ==
    /\ req[r].pc = "Authenticated"
    /\ IF verify_signature(DEVICE_PUBLIC_KEYS, req[r].device_id, req[r].data,
                           req[r].signature[1])
       THEN /\ Advance(r, [Logged(req[r], "signature", "ok") EXCEPT
                              !.pc = "Verified"])
            /\ UNCHANGED DEVICE_PUBLIC_KEYS
       ELSE /\ Advance(r, [Logged(req[r], "signature", "fail") EXCEPT
                              !.pc = AfterBadSignature,
                              !.response = ErrorResponse(401, "Invalid signature or fake device")])
            /\ DEVICE_PUBLIC_KEYS' = [DEVICE_PUBLIC_KEYS EXCEPT ![req[r].device_id] = Absent]
    /\ UNCHANGED <<device_registry, contract_abi, service, lookup, reg,
                   backlog, ipfs_store, pending, chain>>

\* if not verify_signature(...): raise 401
VerifySignature(r) ==
    /\ req[r].pc = "Authenticated"
    /\ IF verify_signature(DEVICE_PUBLIC_KEYS, req[r].device_id, req[r].data,
                           req[r].signature[1])
       THEN Advance(r, [Logged(req[r], "signature", "ok") EXCEPT
                           !.pc = "Verified"])
       ELSE Advance(r, [Logged(req[r], "signature", "fail") EXCEPT
                           !.pc = AfterBadSignature,
                           !.response = ErrorResponse(401, "Invalid signature or fake device")])
    /\ UNCHANGED <<device_registry, DEVICE_PUBLIC_KEYS, contract_abi, service, lookup, reg,
                   backlog, ipfs_store, pending, chain>>

\* cid = upload_to_ipfs(iot_data.data); the store answers or the call raises
UploadToIpfs(r) ==
    /\ req[r].pc = "Verified"
    /\ \E answers \in BOOLEAN :
          IF answers
          THEN /\ ipfs_store' = ipfs_store \cup {json_bytes(req[r].data)}
               /\ Advance(r, [Logged(req[r], "upload", "ok") EXCEPT
                                 !.pc = "Stored",
                                 !.ipfs_calls = @ + 1,
                                 !.cid = Some(CidOf(json_bytes(req[r].data)))])
          ELSE /\ UNCHANGED ipfs_store
               /\ Advance(r, [Logged(req[r], "upload", "fail") EXCEPT
                                 !.pc = AfterUploadError,
                                 !.ipfs_calls = @ + 1,
                                 !.response = ErrorResponse(500, "IPFS upload failed")])
    /\ UNCHANGED <<device_registry, DEVICE_PUBLIC_KEYS, contract_abi, service, lookup, reg,
                   backlog, pending, chain>>
\* ------------------------------------------------------ store_hash_on_chain
\* The result of the stage that is running, written over its "running" entry.
Resolved(rec, result) ==
    [rec EXCEPT !.log[Len(rec.log)].result = result]

\* execute_contract_function caught an exception and returned None;
\* store_data_hash returned None; store_hash_on_chain raised; the handler
\* answers 500.
AnchorFailed(rec, cause) ==
    [Resolved(rec, "fail") EXCEPT
        !.pc = AfterAnchorError,
        !.error = cause,
        !.response = ErrorResponse(500,
            "Blockchain write failed: Blockchain transaction failed")]

\* A hash of the bytes that went to the content store.
stored_data_hash(data) == sha256(json_bytes(data))

\* data_hash = hashlib.sha256(data_bytes).digest(), of the data argument
chain_data_hash(data) == sha256(chain_data_bytes(data))

\* An anchor stage that answers from an earlier completed upload of the same
\* content instead of sending a transaction of its own.
GetContractFunctionDedup(r) ==
    /\ req[r].pc = "Stored"
    /\ LET rec == [Logged(req[r], "anchor", "running") EXCEPT
                      !.device_address = Some(get_device_address(req[r].device_id)),
                      !.data_hash = Some(chain_data_hash(req[r].data))]
           same == {q \in Requests : req[q].pc = "Completed" /\ req[q].cid = req[r].cid}
       IN  IF same # {}
           THEN Advance(r, [Resolved(rec, "ok") EXCEPT
                               !.pc = "Completed",
                               !.tx = req[CHOOSE q \in same : TRUE].tx,
                               !.receipt = req[CHOOSE q \in same : TRUE].receipt,
                               !.response = req[CHOOSE q \in same : TRUE].response])
           ELSE IF "storeDataHash" \in contract_abi
           THEN Advance(r, [rec EXCEPT !.pc = "anchor_fn"])
           ELSE Advance(r, AnchorFailed(rec, "no_function"))
    /\ UNCHANGED <<device_registry, DEVICE_PUBLIC_KEYS, contract_abi, service, lookup, reg,
                   backlog, ipfs_store, pending, chain>>

\* An anchor stage that does not look the function up before the nonce read.
GetContractFunctionLate(r) ==
    /\ req[r].pc = "Stored"
    /\ Advance(r, [Logged(req[r], "anchor", "running") EXCEPT
                      !.device_address = Some(get_device_address(req[r].device_id)),
                      !.data_hash = Some(chain_data_hash(req[r].data)),
                      !.pc = "anchor_fn"])
    /\ UNCHANGED <<device_registry, DEVICE_PUBLIC_KEYS, contract_abi, service, lookup, reg,
                   backlog, ipfs_store, pending, chain>>

\* store_hash_on_chain up to getattr(self.contract.functions, name)(*args):
\* the arguments are computed from the request in memory, then the function
\* is looked up in the loaded interface.
GetContractFunction(r) ==
    /\ req[r].pc = "Stored"
    /\ LET rec == [Logged(req[r], "anchor", "running") EXCEPT
                      !.device_address = Some(get_device_address(req[r].device_id)),
                      !.data_hash = Some(chain_data_hash(req[r].data))]
       IN  IF "storeDataHash" \in contract_abi
           THEN Advance(r, [rec EXCEPT !.pc = "anchor_fn"])
           ELSE Advance(r, AnchorFailed(rec, "no_function"))
    /\ UNCHANGED <<device_registry, DEVICE_PUBLIC_KEYS, contract_abi, service, lookup, reg,
                   backlog, ipfs_store, pending, chain>>

\* w3.eth.get_transaction_count(account): the number of transactions of the
\* account in the latest block; pending ones are not counted.
get_transaction_count == Len(chain)

\* nonce = self.w3.eth.get_transaction_count(self.config.account_address)
GetTransactionCount(r) ==
    /\ req[r].pc = "anchor_fn"
    /\ \E answers \in BOOLEAN :
          IF answers
          THEN Advance(r, [req[r] EXCEPT !.pc = "anchor_nonce",
                                         !.nonce = Some(get_transaction_count),
                                         !.nonce_reads = @ + 1])
          ELSE Advance(r, AnchorFailed(req[r], "connection"))
    /\ UNCHANGED <<device_registry, DEVICE_PUBLIC_KEYS, contract_abi, service, lookup, reg,
                   backlog, ipfs_store, pending, chain>>

\* The transaction build_transaction makes of the call and the nonce.
BuiltTransaction(rec) ==
    [nonce |-> rec.nonce[1], ipfs_hash |-> rec.cid[1], data_type |-> "sensor",
     device_address |-> rec.device_address[1], data_hash |-> rec.data_hash[1]]

\* The node takes a transaction whose nonce is the account's next one, unless
\* it already holds the very same transaction.
NodeCanAccept(tx) == tx.nonce = Len(chain) /\ tx \notin pending

\* build_transaction, sign_transaction, send_raw_transaction
SendRawTransaction(r) ==
    /\ req[r].pc = "anchor_nonce"
    /\ LET tx == BuiltTransaction(req[r]) IN
       \/ \* the fee quote or the signing raises: nothing is sent
          /\ Advance(r, AnchorFailed(req[r], "before_send"))
          /\ UNCHANGED pending
       \/ \* the node refuses (nonce too low, underpriced replacement, already
          \* known) or the connection breaks
          /\ Advance(r, AnchorFailed([req[r] EXCEPT !.tx_sends = @ + 1], "send_refused"))
          /\ UNCHANGED pending
       \/ \* the node takes it; a pending transaction of the same nonce is replaced
          /\ NodeCanAccept(tx)
          /\ pending' = {p \in pending : p.nonce # tx.nonce} \cup {tx}
          /\ Advance(r, [req[r] EXCEPT !.pc = "anchor_sent",
                                       !.tx = Some(tx),
                                       !.tx_sends = @ + 1])
    /\ UNCHANGED <<device_registry, DEVICE_PUBLIC_KEYS, contract_abi, service, lookup, reg,
                   backlog, ipfs_store, chain>>

\* The position of tx in the chain, 0 when it is not mined.
BlockOf(tx) ==
    IF \E i \in 1..Len(chain) : chain[i].tx = tx
    THEN CHOOSE i \in 1..Len(chain) : chain[i].tx = tx
    ELSE 0

\* wait_for_transaction_receipt returns the receipt; the result dict becomes a
\* TransactionResult, store_hash_on_chain returns its tx_hash and the handler
\* answers 200.
WaitReceipt(r) ==
    /\ req[r].pc = "anchor_sent"
    /\ BlockOf(req[r].tx[1]) > 0
    /\ LET b == BlockOf(req[r].tx[1]) IN
       Advance(r, [Resolved(req[r], "ok") EXCEPT
                      !.pc = "Completed",
                      !.receipt = Some([status |-> chain[b].status, block_number |-> b]),
                      !.response = [status_code |-> 200,
                                    detail |-> "Upload successful",
                                    device_id |-> req[r].device_id,
                                    ipfs_cid |-> req[r].cid,
                                    tx_hash |-> req[r].tx]])
    /\ UNCHANGED <<device_registry, DEVICE_PUBLIC_KEYS, contract_abi, service, lookup, reg,
                   backlog, ipfs_store, pending, chain>>

\* A wait for the receipt that has no deadline never gives up.
WaitWithoutDeadline(r) ==
    /\ FALSE
    /\ req[r].pc = "anchor_sent"
    /\ UNCHANGED vars

\* A timeout handler that takes the request's content out of the store.
WaitTimeoutUnpins(r) ==
    /\ req[r].pc = "anchor_sent"
    /\ BlockOf(req[r].tx[1]) = 0
    /\ Advance(r, AnchorFailed(req[r], "timeout"))
    /\ ipfs_store' = ipfs_store \ {json_bytes(req[r].data)}
    /\ UNCHANGED <<device_registry, DEVICE_PUBLIC_KEYS, contract_abi, service, lookup, reg,
                   backlog, pending, chain>>

\* wait_for_transaction_receipt(tx_hash, timeout=120) raises TimeExhausted
WaitTimeout(r) ==
    /\ req[r].pc = "anchor_sent"
    /\ BlockOf(req[r].tx[1]) = 0
    /\ Advance(r, AnchorFailed(req[r], "timeout"))
    /\ UNCHANGED <<device_registry, DEVICE_PUBLIC_KEYS, contract_abi, service, lookup, reg,
                   backlog, ipfs_store, pending, chain>>

\* ------------------------------------------------------------- ledger node
\* The contract call of a mined transaction succeeds (1) or reverts (0).
ReceiptStatuses == {0, 1}

\* The node mines the pending transaction that carries the account's next nonce.
Mine ==
    /\ \E tx \in pending, st \in ReceiptStatuses :
          /\ tx.nonce = Len(chain)
          /\ chain' = Append(chain, [tx |-> tx, status |-> st])
          /\ pending' = pending \ {tx}
    /\ UNCHANGED <<device_registry, DEVICE_PUBLIC_KEYS, contract_abi, service, lookup, reg,
                   req, backlog, loop, ipfs_store>>

\* ------------------------------------------------------------ get_data_hash
\* The contract appends one record for every storeDataHash transaction that
\* is mined without reverting; a reverted transaction leaves no record.
NotReverted(entry) == entry.status = 1
ContractRecords == SelectSeq(chain, NotReverted)

\* The exception the body of the try in call_contract_function raises, ""
\* when it raises none: the getattr finds no such function, the node does not
\* answer, or the contract has no record at the index (counted from 0).
CallRaised(index, answers) ==
    IF "getDataHash" \notin contract_abi THEN "ABIFunctionNotFound"
    ELSE IF ~answers THEN "ConnectionError"
    ELSE IF index + 1 \notin DOMAIN ContractRecords THEN "ContractLogicError"
    ELSE ""

\* A handler for the contract's own error alone.
CallCaughtLogicErrorOnly(exc) == exc = "ContractLogicError"

\* except Exception as e: ... return None
CallCaught(exc) == TRUE

\* What call_contract_function("getDataHash", index) does.
call_contract_function(index, answers) ==
    LET exc == CallRaised(index, answers)
    IN  IF exc = ""
        THEN [raised |-> FALSE, value |-> Some(ContractRecords[index + 1].tx.ipfs_hash)]
        ELSE IF CallCaught(exc) THEN [raised |-> FALSE, value |-> None]
        ELSE [raised |-> TRUE, value |-> None]

\* get_data_hash(index) against a node that answers
get_data_hash(index) == call_contract_function(index, TRUE).value

\* The indexes a caller asks for.
MaxIndex == 2
LookupIndexes == 0..MaxIndex

\* A call of get_data_hash: a contract call(), which sends no transaction.
GetDataHash(index, answers) ==
    /\ service.status = "up"
    /\ LET result == call_contract_function(index, answers)
       IN  lookup' = Some([index |-> index, answered |-> answers,
                           raised |-> result.raised, value |-> result.value])
    /\ UNCHANGED <<device_registry, DEVICE_PUBLIC_KEYS, contract_abi, service, reg,
                   req, backlog, loop, ipfs_store, pending, chain>>

\* ----------------------------------------------------------- specification
UploadStep(r) ==
    \/ CheckRegistry(r)
    \/ VerifySignature(r)
    \/ UploadToIpfs(r)
    \/ GetContractFunction(r)
    \/ GetTransactionCount(r)
    \/ SendRawTransaction(r)
    \/ WaitReceipt(r)
    \/ WaitTimeout(r)

Next ==
    \/ \E i \in Registers : RegisterBegin(i)
    \/ \E i \in Registers : RegisterFinish(i)
    \/ ReceiveUpload
    \/ \E r \in Requests : StartUpload(r)
    \/ \E r \in Requests : UploadStep(r)
    \/ Mine

Spec == Init /\ [][Next]_vars

\* The event loop keeps running the coroutine it has started, and every call
\* the coroutine makes returns or raises.
FairSpec == Spec /\ \A r \in Requests : WF_vars(UploadStep(r))

\* ------------------------------------------------- one upload, any arguments
\* The steps of a single upload whose payload and signature are drawn from
\* the wide sets, for a device whose register call has made its first write
\* (finished = FALSE) or has returned (finished = TRUE).
PayloadDevice == "IOT-A"

PayloadInit ==
    /\ \E k \in WideKeyStrings, finished \in BOOLEAN :
          /\ device_registry = [d \in RegisterIds |->
                                  IF d = PayloadDevice THEN k ELSE Absent]
          /\ DEVICE_PUBLIC_KEYS = [d \in RegisterIds |->
                                     IF d = PayloadDevice /\ finished THEN k ELSE Absent]
          /\ reg = [i \in Registers |->
                      IF i > 1 THEN NewRegister
                      ELSE IF finished THEN [NewRegister EXCEPT !.pc = "done"]
                      ELSE [pc |-> "wrote_registry", device_id |-> PayloadDevice,
                            public_key |-> k]]
    /\ contract_abi = ServiceAbi
    /\ service = Constructed("service")
    /\ lookup = None
    /\ \E data \in WidePayloads, sig \in WideSignatures :
          req = [r \in Requests |->
                   IF r > 1 THEN NewRequest
                   ELSE [NewRequest EXCEPT !.pc = "Received",
                                           !.device_id = PayloadDevice,
                                           !.data = data,
                                           !.signature = Some(sig)]]
    /\ backlog = 0
    /\ loop = 1
    /\ ipfs_store = {}
    /\ pending = {}
    /\ chain = <<>>

PayloadNext ==
    \/ \E r \in Requests : UploadStep(r)
    \/ Mine

PayloadSpec == PayloadInit /\ [][PayloadNext]_vars

\* ------------------------------------------------- register calls one by one
\* The service when a register call is started only after the one before it
\* has returned; uploads run alongside as before.
NoRegisterRunning == \A j \in Registers : reg[j].pc # "wrote_registry"

SerialNext ==
    \/ \E i \in Registers : NoRegisterRunning /\ RegisterBegin(i)
    \/ \E i \in Registers : RegisterFinish(i)
    \/ ReceiveUpload
    \/ \E r \in Requests : StartUpload(r)
    \/ \E r \in Requests : UploadStep(r)
    \/ Mine

SerialSpec == Init /\ [][SerialNext]_vars

\* ------------------------------------------------------------------ startup
\* The import of routes/iot.py runs blockchain_service = BlockchainService():
\* an exception there ends the import of app.main, and no application exists
\* to serve a request.
Construct ==
    /\ service.status = "starting"
    /\ LET exc == ConstructError(service.config)
       IN  IF exc = ""
           THEN /\ service' = [service EXCEPT !.status = "up"]
                /\ contract_abi' = AbiOf(service.config.abi_file)
           ELSE /\ service' = [service EXCEPT !.status = "failed", !.error = exc]
                /\ UNCHANGED contract_abi
    /\ UNCHANGED <<device_registry, DEVICE_PUBLIC_KEYS, lookup, reg, req, backlog,
                   loop, ipfs_store, pending, chain>>

\* The process before the import, with any environment.
StartupInit ==
    /\ device_registry = [d \in RegisterIds |-> Absent]
    /\ DEVICE_PUBLIC_KEYS = [d \in RegisterIds |-> Absent]
    /\ contract_abi = {}
    /\ \E cfg \in Configs : service = [status |-> "starting", error |-> "", config |-> cfg]
    /\ lookup = None
    /\ reg = [i \in Registers |-> NewRegister]
    /\ req = [r \in Requests |-> NewRequest]
    /\ backlog = 0
    /\ loop = 0
    /\ ipfs_store = {}
    /\ pending = {}
    /\ chain = <<>>

\* Requests are served once the import has gone through.
Serve == service.status = "up" /\ Next

StartupNext == Construct \/ Serve

StartupSpec == StartupInit /\ [][StartupNext]_vars

\* ------------------------------------------------------- a registered device
\* The service after a first register call for a device has returned: every
\* later register call for the device is a re-registration.
RekeyDevice == "IOT-A"
OldKey == "pk1"

RekeyInit ==
    /\ device_registry = [d \in RegisterIds |-> IF d = RekeyDevice THEN OldKey ELSE Absent]
    /\ DEVICE_PUBLIC_KEYS = [d \in RegisterIds |-> IF d = RekeyDevice THEN OldKey ELSE Absent]
    /\ \E abi_file \in {"service", "config"} :
          /\ contract_abi = AbiOf(abi_file)
          /\ service = Constructed(abi_file)
    /\ lookup = None
    /\ reg = [i \in Registers |->
                IF i = 1 THEN [NewRegister EXCEPT !.pc = "done"] ELSE NewRegister]
    /\ req = [r \in Requests |-> NewRequest]
    /\ backlog = 0
    /\ loop = 0
    /\ ipfs_store = {}
    /\ pending = {}
    /\ chain = <<>>

RekeySpec == RekeyInit /\ [][Next]_vars

\* ------------------------------------------------- lookups on a given ledger
\* A service that has just started on a ledger which holds the transactions
\* of earlier uploads, reverted or not, and the get_data_hash calls made on it.
MaxLedger == 2

TxAt(n, device_id) ==
    [nonce |-> n, ipfs_hash |-> CidOf(json_bytes(Reading(device_id))),
     data_type |-> "sensor", device_address |-> get_device_address(device_id),
     data_hash |-> chain_data_hash(Reading(device_id))]

Ledgers ==
    {<<>>} \cup
    UNION {{[k \in 1..n |-> [tx |-> TxAt(k - 1, f[k][1]), status |-> f[k][2]]] :
               f \in [1..n -> IoTDataIds \X ReceiptStatuses]} : n \in 1..MaxLedger}

LookupInit ==
    /\ device_registry = [d \in RegisterIds |-> Absent]
    /\ DEVICE_PUBLIC_KEYS = [d \in RegisterIds |-> Absent]
    /\ \E abi_file \in {"service", "config"} :
          /\ contract_abi = AbiOf(abi_file)
          /\ service = Constructed(abi_file)
    /\ lookup = None
    /\ reg = [i \in Registers |-> NewRegister]
    /\ req = [r \in Requests |-> NewRequest]
    /\ backlog = 0
    /\ loop = 0
    /\ ipfs_store = {}
    /\ pending = {}
    /\ chain \in Ledgers

LookupNext == \E index \in LookupIndexes, answers \in BOOLEAN : GetDataHash(index, answers)

LookupSpec == LookupInit /\ [][LookupNext]_vars
\* ================================================================== claims
StageOrder == <<"registry", "signature", "upload", "anchor">>

AnchorPcs == {"anchor_fn", "anchor_nonce", "anchor_sent"}

\* The request made no call to the ledger anchor.
NoAnchorCall(r) ==
    /\ req[r].nonce_reads = 0
    /\ req[r].tx_sends = 0
    /\ req[r].tx = None
    /\ \A i \in 1..Len(req[r].log) : req[r].log[i].stage # "anchor"

\* C1: the stages of a request are invoked in the order registry check,
\* signature verification, content upload, ledger anchor, each only after
\* every earlier stage of the request succeeded; the anchor is invoked only
\* for a request whose upload was invoked once and returned a cid.
C1_StagesGated ==
    \A r \in Requests :
        LET log == req[r].log IN
        /\ Len(log) <= Len(StageOrder)
        /\ \A i \in 1..Len(log) :
              /\ log[i].stage = StageOrder[i]
              /\ \A j \in 1..(i - 1) : log[j].result = "ok"
        /\ ~NoAnchorCall(r) => /\ req[r].ipfs_calls = 1
                               /\ req[r].cid = Some(CidOf(json_bytes(req[r].data)))
                               /\ json_bytes(req[r].data) \in ipfs_store

C1_Witness ==
    \E r \in Requests :
        /\ req[r].pc = "Completed"
        /\ Len(req[r].log) = 4
        /\ \A i \in 1..4 : req[r].log[i].result = "ok"

\* C2: at most one upload is between reading the account's nonce and
\* submitting its signed transaction.
C2_OneInNonceWindow ==
    Cardinality({r \in Requests : req[r].pc = "anchor_nonce"}) <= 1

\* An upload is in the window while another one has been received and waits.
C2_Witness ==
    \E r \in Requests : req[r].pc = "anchor_nonce" /\ backlog > 0

\* C3: the anchor calls whose transaction the node has taken used pairwise
\* distinct nonces, and every call that has ended has an outcome for its
\* caller.
C3_DistinctNonces ==
    /\ \A r1, r2 \in Requests :
          (r1 # r2 /\ req[r1].tx # None /\ req[r2].tx # None)
              => req[r1].tx[1].nonce # req[r2].tx[1].nonce
    /\ \A r \in Requests :
          req[r].pc \in Terminal => req[r].response.status_code \in {200, 401, 500}

\* C4: a receipt with a failure status makes the request end in
\* Failed{ledger}; a Completed request has a receipt whose status is success.
C4_RevertFails ==
    \A r \in Requests :
        /\ req[r].pc = "Completed" => req[r].receipt[1].status = 1
        /\ (req[r].receipt # None /\ req[r].receipt[1].status = 0)
              => req[r].pc = "Failed_ledger"

\* C5: a request that has passed the registry check while its device is not
\* in device_registry is rejected as unregistered after that one stage, with
\* no upload, nonce read or submission; and verify_signature is false for
\* every device that is not in device_registry.
C5_UnregisteredRejected ==
    /\ \A r \in Requests :
          (req[r].log # <<>> /\ device_registry[req[r].device_id] = Absent)
              => req[r].pc = "Rejected_unregistered"
    /\ \A r \in Requests :
          req[r].pc = "Rejected_unregistered"
              => /\ req[r].log = <<[stage |-> "registry", result |-> "fail"]>>
                 /\ req[r].response = ErrorResponse(401, "Device not registered")
                 /\ req[r].ipfs_calls = 0
                 /\ NoAnchorCall(r)
    /\ \A d \in IoTDataIds :
          device_registry[d] = Absent
              => \A sig \in SignaturesFor(Reading(d)) :
                    ~verify_signature(DEVICE_PUBLIC_KEYS, d, Reading(d), sig)

\* An upload of an unregistered device was rejected while the other device
\* is registered and verifiable.
C5_Witness ==
    \E r \in Requests :
        /\ req[r].pc = "Rejected_unregistered"
        /\ device_registry[req[r].device_id] = Absent
        /\ \E d \in IoTDataIds : DEVICE_PUBLIC_KEYS[d] \in {"pk1", "pk2"}

\* C6: the step of a request whose device passed the registry check and whose
\* signature does not verify ends it in Rejected{bad_signature}, and such a
\* request has made no upload and no anchor call.
C6_BadSignatureRejected ==
    /\ [][\A r \in Requests :
            (/\ req[r].pc = "Authenticated"
             /\ req'[r] # req[r]
             /\ ~verify_signature(DEVICE_PUBLIC_KEYS, req[r].device_id,
                                  req[r].data, req[r].signature[1]))
                => req'[r].pc = "Rejected_bad_signature"]_vars
    /\ [](\A r \in Requests :
            req[r].pc = "Rejected_bad_signature"
                => /\ req[r].response.status_code = 401
                   /\ req[r].ipfs_calls = 0
                   /\ json_bytes(req[r].data) \in ipfs_store
                         => \E q \in Requests : q # r /\ req[q].ipfs_calls > 0
                   /\ NoAnchorCall(r))

\* A truncated signature of the right key was rejected for a device whose
\* registered key is that key.
C6_Witness ==
    \E r \in Requests :
        /\ req[r].pc = "Rejected_bad_signature"
        /\ req[r].signature[1].b64 = "cut4"
        /\ DEVICE_PUBLIC_KEYS[req[r].device_id] = pubkey_hex(req[r].signature[1].signer)

\* C7: a request whose upload failed ends in Failed{storage} with exactly one
\* upload attempt and no anchor call; no request uploads more than once.
C7_UploadFailureFinal ==
    \A r \in Requests :
        /\ req[r].ipfs_calls <= 1
        /\ (Len(req[r].log) >= 3 /\ req[r].log[3].result = "fail")
              => /\ req[r].pc = "Failed_storage"
                 /\ req[r].response.status_code = 500
                 /\ req[r].ipfs_calls = 1
                 /\ req[r].cid = None
                 /\ NoAnchorCall(r)

C7_Witness ==
    \E r \in Requests : req[r].pc = "Failed_storage" /\ req[r].ipfs_calls = 1

\* C8: every anchor call returns: a request inside the anchor call ends in
\* Completed or Failed{ledger}, and a call whose wait for the receipt ran
\* out has failed its request with Failed{ledger}.
C8_AnchorReturns ==
    /\ \A r \in Requests :
          (req[r].pc \in AnchorPcs) ~> (req[r].pc \in {"Completed", "Failed_ledger"})
    /\ [](\A r \in Requests :
            req[r].error = "timeout"
                => /\ req[r].pc = "Failed_ledger"
                   /\ req[r].response.status_code = 500)

\* A request failed on the deadline while its transaction is still pending.
C8_Witness ==
    \E r \in Requests :
        /\ req[r].pc = "Failed_ledger"
        /\ req[r].error = "timeout"
        /\ req[r].tx[1] \in pending

\* C9: a request reads the nonce at most once, submits at most one
\* transaction and invokes the anchor at most once; an anchor call that
\* failed has ended its request in Failed{ledger} with a 500 answer.
C9_NoResubmission ==
    \A r \in Requests :
        /\ req[r].nonce_reads <= 1
        /\ req[r].tx_sends <= 1
        /\ req[r].error # ""
              => /\ req[r].pc = "Failed_ledger"
                 /\ req[r].response = ErrorResponse(500,
                       "Blockchain write failed: Blockchain transaction failed")

\* Every upload has ended, one of them in a failure after its one submission.
C9_Witness ==
    /\ \A r \in Requests : req[r].pc \in Terminal
    /\ \E r \in Requests :
          /\ req[r].pc = "Failed_ledger"
          /\ req[r].error \in {"timeout", "send_refused"}
          /\ req[r].tx_sends = 1

\* C10: an upload that repeats an earlier upload whose anchor call failed
\* after its transaction was submitted reads a nonce different from the one
\* of that transaction.
C10_FreshNonce ==
    \A r1, r2 \in Requests :
        (/\ r1 < r2
         /\ req[r1].pc = "Failed_ledger"
         /\ req[r1].tx # None
         /\ req[r2].device_id = req[r1].device_id
         /\ req[r2].data = req[r1].data
         /\ req[r2].nonce # None)
            => req[r2].nonce[1] # req[r1].tx[1].nonce

\* ---------------------------------------------------------------- register
\* C11: a register call with a non-empty device id and a non-empty key is
\* never refused; its first write puts its key under its id in device_registry
\* and its second write puts it in DEVICE_PUBLIC_KEYS, over whatever key was
\* there, and neither write touches the entry of another id: when the call
\* returns, the key that verify_signature looks up for the id is its key.
C11_LastWriteWins ==
    [][\A i \in Registers :
          /\ (/\ reg[i].pc = "new"
              /\ reg'[i].pc # "new"
              /\ reg'[i].device_id # ""
              /\ reg'[i].public_key # "")
                => /\ reg'[i].pc = "wrote_registry"
                   /\ device_registry'[reg'[i].device_id] = reg'[i].public_key
                   /\ \A d \in RegisterIds \ {reg'[i].device_id} :
                         device_registry'[d] = device_registry[d]
                   /\ DEVICE_PUBLIC_KEYS' = DEVICE_PUBLIC_KEYS
          /\ (reg[i].pc = "wrote_registry" /\ reg'[i] # reg[i])
                => /\ reg'[i].pc = "done"
                   /\ DEVICE_PUBLIC_KEYS'[reg[i].device_id] = reg[i].public_key
                   /\ \A d \in RegisterIds \ {reg[i].device_id} :
                         DEVICE_PUBLIC_KEYS'[d] = DEVICE_PUBLIC_KEYS[d]
                   /\ device_registry' = device_registry
      ]_vars

\* A second register call has put another key over the one its device had.
C11_Witness ==
    \E i, j \in Registers :
        /\ reg[j].pc = "done"
        /\ reg[i].pc = "wrote_registry"
        /\ device_registry[reg[i].device_id] = reg[i].public_key
        /\ DEVICE_PUBLIC_KEYS[reg[i].device_id] \notin {Absent, reg[i].public_key}

\* C12: a register call with an empty device id or an empty key ends with the
\* 400 answer and changes neither device_registry nor DEVICE_PUBLIC_KEYS, so
\* no map ever holds an empty id or an empty key.
C12_EmptyArgumentRefused ==
    /\ [][\A i \in Registers :
            (/\ reg[i].pc = "new"
             /\ reg'[i].pc # "new"
             /\ (reg'[i].device_id = "" \/ reg'[i].public_key = ""))
               => /\ reg'[i].pc = "error_400"
                  /\ device_registry' = device_registry
                  /\ DEVICE_PUBLIC_KEYS' = DEVICE_PUBLIC_KEYS
         ]_vars
    /\ [][\A i \in Registers : reg[i].pc = "error_400" => reg'[i] = reg[i]]_vars
    /\ [](\A d \in RegisterIds :
            /\ device_registry[d] # ""
            /\ DEVICE_PUBLIC_KEYS[d] # ""
            /\ d = "" => device_registry[d] = Absent /\ DEVICE_PUBLIC_KEYS[d] = Absent)

\* A call with an id and an empty key was refused while a device was registered.
C12_Witness ==
    \E i \in Registers :
        /\ reg[i].pc = "error_400"
        /\ reg[i].device_id # ""
        /\ reg[i].public_key = ""
        /\ \E d \in RegisterIds : DEVICE_PUBLIC_KEYS[d] \notin {Absent, ""}

\* C13: when no register call is between its two writes, device_registry and
\* DEVICE_PUBLIC_KEYS hold the same key for every device, and an upload that
\* found its device in device_registry is never about to look the key up in a
\* DEVICE_PUBLIC_KEYS that lacks it.
C13_RegisterSerialized ==
    /\ (\A i \in Registers : reg[i].pc # "wrote_registry")
          => \A d \in RegisterIds : device_registry[d] = DEVICE_PUBLIC_KEYS[d]
    /\ \A r \in Requests :
          req[r].pc = "Authenticated"
             => DEVICE_PUBLIC_KEYS[req[r].device_id] # Absent

\* --------------------------------------------------------- verify_signature
\* The device ids verify_signature may be called with.
VerifyIds == RegisterIds \ {""}

\* C14: verify_signature returns True or False for every device id, payload
\* and signature string, never an exception; it returns False when the device
\* has no key, when the key is shorter than 64 characters or is no verifying
\* key, when the signature string does not decode, and when the signature is
\* not one over the payload's digest by the key's owner; the upload that
\* called it is then rejected with 401.
C14_VerifyNeverRaises ==
    /\ \A d \in VerifyIds, data \in WidePayloads, sig \in WideSignatures :
          LET key == DEVICE_PUBLIC_KEYS[d]
              res == verify_result(DEVICE_PUBLIC_KEYS, d, data, sig)
          IN  /\ res \in {"True", "False"}
              /\ (\/ key = Absent
                  \/ KeyHexLen(key) < MinKeyHexLen
                  \/ key \in {"nothex", "badlen"}
                  \/ sig.b64 \in {"cut1", "cut4", "flipped"}
                  \/ pubkey_hex(sig.signer) # key
                  \/ sig.digest # sha256(serialized(data)))
                    => res = "False"
    /\ \A r \in Requests :
          (/\ Len(req[r].log) >= 2
           /\ ~verify_signature(DEVICE_PUBLIC_KEYS, req[r].device_id, req[r].data,
                                 req[r].signature[1]))
             => /\ req[r].pc = "Rejected_bad_signature"
                /\ req[r].response.status_code = 401

\* An upload was rejected because the registered key is not hexadecimal, and
\* another because its signature string does not decode.
C14_Witness ==
    \E r \in Requests :
        /\ req[r].pc = "Rejected_bad_signature"
        /\ \/ DEVICE_PUBLIC_KEYS[req[r].device_id] = "nothex"
           \/ /\ DEVICE_PUBLIC_KEYS[req[r].device_id] = "pk1"
              /\ req[r].signature[1] = [sign_data("sk1", req[r].data) EXCEPT !.b64 = "cut1"]

\* C15: when the key registered for a device is the public key of a private
\* key, the signature that sign_data makes with that private key over a
\* payload is accepted by verify_signature for that device and payload, and
\* an upload carrying it is not rejected as a bad signature.
C15_VerifySound ==
    /\ \A d \in VerifyIds, data \in WidePayloads, sk \in PrivateKeys :
          DEVICE_PUBLIC_KEYS[d] = pubkey_hex(sk)
             => verify_signature(DEVICE_PUBLIC_KEYS, d, data, sign_data(sk, data))
    /\ \A r \in Requests, sk \in PrivateKeys :
          (/\ Len(req[r].log) >= 2
           /\ DEVICE_PUBLIC_KEYS[req[r].device_id] = pubkey_hex(sk)
           /\ req[r].signature[1] = sign_data(sk, req[r].data))
             => /\ req[r].log[2] = [stage |-> "signature", result |-> "ok"]
                /\ req[r].pc # "Rejected_bad_signature"

\* An upload whose items were inserted out of key order, signed by the
\* registered key's owner, has passed the verification.
C15_Witness ==
    \E r \in Requests :
        /\ req[r].pc = "Verified"
        /\ req[r].data = P1
        /\ req[r].signature[1] = sign_data("sk2", P1)
        /\ DEVICE_PUBLIC_KEYS[req[r].device_id] = "pk2"

\* The keys of a mapping and the value it holds under one of them.
Keys(data) == {data[i][1] : i \in DOMAIN data}
ValueOf(data, k) == data[CHOOSE i \in DOMAIN data : data[i][1] = k][2]

\* d1 == d2 for two dicts: the same keys with equal values, in any order.
RECURSIVE SameContent(_, _)
SameContent(d1, d2) ==
    /\ Keys(d1) = Keys(d2)
    /\ \A k \in Keys(d1) :
          IF k \in NestedKeys
          THEN SameContent(ValueOf(d1, k), ValueOf(d2, k))
          ELSE ValueOf(d1, k) = ValueOf(d2, k)

ItemEq(a, b) == a[1] = b[1] /\ a[2] = b[2]

\* changed is data with the key or the value of exactly one item replaced.
FieldChanged(data, changed) ==
    /\ Len(data) = Len(changed)
    /\ ~SameContent(data, changed)
    /\ \E i \in DOMAIN data :
          /\ ~ItemEq(data[i], changed[i])
          /\ \A j \in DOMAIN data \ {i} : ItemEq(data[j], changed[j])

\* C16: when the key registered for a device belongs to a private key and
\* an upload carries a signature made with that private key, the upload is
\* rejected as a bad signature if its payload differs from the signed one in
\* the key or the value of one item, and also if its signature string is not
\* the string the device made.
C16_VerifyComplete ==
    \A r \in Requests, sk \in PrivateKeys, signed \in WidePayloads :
        (/\ Len(req[r].log) >= 2
         /\ DEVICE_PUBLIC_KEYS[req[r].device_id] = pubkey_hex(sk)
         /\ req[r].signature[1].signer = sk
         /\ req[r].signature[1].digest = sha256(serialized(signed))
         /\ \/ FieldChanged(signed, req[r].data)
            \/ req[r].signature[1].b64 # "ok")
           => /\ req[r].log[2] = [stage |-> "signature", result |-> "fail"]
              /\ req[r].pc = "Rejected_bad_signature"

\* C17: the data hash of an anchor call is the digest the signer signs and
\* the verifier checks for the request's payload, and it is the hash of the
\* canonical bytes of every payload with the same key/value content, whatever
\* order the keys of that payload were inserted in.
C17_CanonicalEncoding ==
    \A r \in Requests :
        req[r].data_hash # None
           => /\ req[r].data_hash[1] = sha256(serialized(req[r].data))
              /\ req[r].data_hash[1] = sha256(data_bytes(req[r].data))
              /\ \A d2 \in WidePayloads :
                    SameContent(req[r].data, d2)
                       => /\ req[r].data_hash[1] = sha256(chain_data_bytes(d2))
                          /\ serialized(d2) = data_bytes(req[r].data)

\* ------------------------------------------------------------------ anchor
\* The transactions the ledger node holds or has mined.
LedgerTransactions == pending \cup {chain[n].tx : n \in DOMAIN chain}

\* C18: the transaction of every anchor call carries the hash of the
\* canonical bytes of the payload its own request holds in memory and the cid
\* of the bytes that request's one upload call put into the content store;
\* when another request holds another payload, the pair is not that
\* request's; and every transaction on the ledger is such a transaction.
C18_HashOfUploadedPayload ==
    /\ \A r \in Requests :
          req[r].tx # None
             => /\ req[r].tx[1].data_hash = sha256(serialized(req[r].data))
                /\ req[r].tx[1].ipfs_hash = CidOf(json_bytes(req[r].data))
                /\ req[r].tx[1].ipfs_hash = req[r].cid[1]
                /\ json_bytes(req[r].data) \in ipfs_store
                /\ req[r].ipfs_calls = 1
                /\ \A r2 \in Requests :
                      (req[r2].pc # "new" /\ req[r2].data # req[r].data)
                         => /\ req[r].tx[1].data_hash # sha256(serialized(req[r2].data))
                            /\ req[r].tx[1].ipfs_hash # CidOf(json_bytes(req[r2].data))
    /\ \A tx \in LedgerTransactions : \E r \in Requests : req[r].tx = Some(tx)

\* Two requests with different payloads have both had their transaction
\* accepted, and one of the transactions is mined.
C18_Witness ==
    \E r1, r2 \in Requests :
        /\ req[r1].tx # None
        /\ req[r2].tx # None
        /\ req[r1].data # req[r2].data
        /\ chain # <<>>

\* Two uploads of the same device with the same payload, both completed.
CompletedTwice(r1, r2) ==
    /\ r1 # r2
    /\ req[r1].pc = "Completed"
    /\ req[r2].pc = "Completed"
    /\ req[r1].device_id = req[r2].device_id
    /\ req[r1].data = req[r2].data

AnchorIndexes(tx) ==
    {index \in 0..(Len(ContractRecords) - 1) : ContractRecords[index + 1].tx = tx}

\* C20: a completed upload answers 200 with the device id of its request, the
\* cid its own upload call returned and the identifier of its own
\* transaction, and the contract holds a record of that transaction at an
\* index where get_data_hash returns the same cid.
C20_CompletedResult ==
    \A r \in Requests :
        req[r].pc = "Completed"
           => /\ req[r].response.status_code = 200
              /\ req[r].response.device_id = req[r].device_id
              /\ req[r].response.ipfs_cid = Some(CidOf(json_bytes(req[r].data)))
              /\ req[r].response.ipfs_cid = req[r].cid
              /\ req[r].response.tx_hash = req[r].tx
              /\ req[r].tx # None
              /\ \E index \in AnchorIndexes(req[r].tx[1]) :
                    get_data_hash(index) = req[r].response.ipfs_cid

\* ------------------------------------------------------------ get_data_hash
\* C21: a get_data_hash call changes nothing but its own result: the ledger,
\* the pending transactions and every request's nonce reads and submissions
\* stay as they were; the call never raises; it returns None when the loaded
\* interface has no getDataHash, when the node does not answer and when the
\* contract holds no record at the index, and the record's cid otherwise.
C21_LookupReadOnly ==
    [][lookup' # lookup
         => /\ chain' = chain
            /\ pending' = pending
            /\ req' = req
            /\ <<device_registry, DEVICE_PUBLIC_KEYS, contract_abi, service, reg,
                  backlog, loop, ipfs_store>>' =
               <<device_registry, DEVICE_PUBLIC_KEYS, contract_abi, service, reg,
                 backlog, loop, ipfs_store>>
            /\ lookup' # None
            /\ ~lookup'[1].raised
            /\ IF \/ "getDataHash" \notin contract_abi
                  \/ ~lookup'[1].answered
                  \/ lookup'[1].index >= Len(ContractRecords)
               THEN lookup'[1].value = None
               ELSE lookup'[1].value =
                       Some(ContractRecords[lookup'[1].index + 1].tx.ipfs_hash)
    ]_vars

\* A lookup on a ledger that holds a transaction found no record at its
\* index and returned None, and the ledger is still there.
C21_Witness ==
    /\ lookup # None
    /\ lookup[1].answered
    /\ lookup[1].value = None
    /\ "getDataHash" \in contract_abi
    /\ chain # <<>>

\* ---------------------------------------------------------------- outcomes
\* The status code with which each terminal state answers the caller.
OutcomeCode(pc) ==
    CASE pc = "Completed" -> 200
      [] pc \in {"Rejected_unregistered", "Rejected_bad_signature"} -> 401
      [] OTHER -> 500

\* C22: every upload the event loop has started reaches one of Completed,
\* Rejected (unregistered, bad signature) or Failed (storage, ledger); once
\* there it stays there; it answers the caller with the status code of that
\* state, and a request that is still running has answered nothing.
C22_UploadTerminates ==
    /\ \A r \in Requests : (req[r].pc # "new") ~> (req[r].pc \in Terminal)
    /\ [][\A r \in Requests : req[r].pc \in Terminal => req'[r] = req[r]]_vars
    /\ [](\A r \in Requests :
            IF req[r].pc \in Terminal
            THEN req[r].response.status_code = OutcomeCode(req[r].pc)
            ELSE req[r].response = NoResponse)

\* One upload has completed and another has failed at the ledger.
C22_Witness ==
    \E r1, r2 \in Requests :
        /\ req[r1].pc = "Completed"
        /\ req[r2].pc = "Failed_ledger"
        /\ req[r2].response.status_code = 500

\* ------------------------------------------------------------------ anchor
\* C23: two uploads of different devices whose transactions were accepted
\* carry different device addresses.
C23_DeviceBound ==
    \A r1, r2 \in Requests :
        (/\ req[r1].tx # None
         /\ req[r2].tx # None
         /\ req[r1].device_id # req[r2].device_id)
           => req[r1].tx[1].device_address # req[r2].tx[1].device_address

\* ----------------------------------------------------------- re-registration
\* C24: once a register call has put pk2 over the key pk1 the device had,
\* the verification of an upload of the device rejects every signature made
\* with sk1 as a bad signature and accepts the signature made with sk2 over
\* the upload's payload.
C24_OldKeyRevoked ==
    [][\A r \in Requests :
          (/\ req[r].pc = "Authenticated"
           /\ req'[r].pc # "Authenticated"
           /\ req[r].device_id = RekeyDevice
           /\ DEVICE_PUBLIC_KEYS[RekeyDevice] = "pk2")
             => /\ req[r].signature[1].signer = "sk1"
                      => req'[r].pc = "Rejected_bad_signature"
                /\ req[r].signature[1] = sign_data("sk2", req[r].data)
                      => req'[r].pc = "Verified"
      ]_vars

\* With pk2 registered over pk1, an upload signed with sk1 was rejected and
\* one signed with sk2 has passed the verification.
C24_Witness ==
    /\ DEVICE_PUBLIC_KEYS[RekeyDevice] = "pk2"
    /\ \E r1, r2 \in Requests :
          /\ req[r1].device_id = RekeyDevice
          /\ req[r1].signature = Some(sign_data("sk1", req[r1].data))
          /\ req[r1].pc = "Rejected_bad_signature"
          /\ req[r2].device_id = RekeyDevice
          /\ req[r2].signature = Some(sign_data("sk2", req[r2].data))
          /\ Len(req[r2].log) >= 2
          /\ req[r2].log[2].result = "ok"

\* ------------------------------------------------------------------ startup
\* The faults of the environment the service is constructed from.
BadConfig(cfg) ==
    \/ cfg.provider_url = "node:8545"
    \/ cfg.contract_address = "not-an-address"
    \/ cfg.account_address = "not-an-address"
    \/ cfg.abi_file \in {"missing", "badjson"}
    \/ ~cfg.node_up

NothingServed ==
    /\ \A i \in Registers : reg[i] = NewRegister
    /\ \A r \in Requests : req[r] = NewRequest
    /\ backlog = 0
    /\ \A d \in RegisterIds : device_registry[d] = Absent /\ DEVICE_PUBLIC_KEYS[d] = Absent
    /\ ipfs_store = {} /\ pending = {} /\ chain = <<>>

\* C25: with a malformed provider URL or address, a missing or unparsable
\* interface file or an unreachable node, the service never comes up: the
\* construction raises, and no register call and no upload is ever served;
\* nothing is served before the construction either.
C25_StartupFatal ==
    /\ BadConfig(service.config)
          => /\ service.status \in {"starting", "failed"}
             /\ NothingServed
    /\ service.status = "failed" => service.error # "" /\ BadConfig(service.config)
    /\ service.status # "up" => NothingServed

\* The construction failed because the node did not answer, and for no other
\* reason.
C25_Witness ==
    /\ service.status = "failed"
    /\ service.error = "ConnectionError"
    /\ service.config.abi_file = "service"

\* ------------------------------------------------------------ failed anchors
\* C26: an upload that failed at the ledger has its content in the content
\* store, under the cid its upload call returned, and no step ever takes
\* content out of the store.
C26_NoCompensation ==
    /\ [](\A r \in Requests :
            req[r].pc = "Failed_ledger"
               => /\ req[r].cid = Some(CidOf(json_bytes(req[r].data)))
                  /\ json_bytes(req[r].data) \in ipfs_store
                  /\ req[r].log[3] = [stage |-> "upload", result |-> "ok"])
    /\ [][ipfs_store \subseteq ipfs_store']_vars

\* An upload whose transaction was sent failed at the ledger on the timeout,
\* and its content is in the store.
C26_Witness ==
    \E r \in Requests :
        /\ req[r].pc = "Failed_ledger"
        /\ req[r].error = "timeout"
        /\ json_bytes(req[r].data) \in ipfs_store

\* C27: two uploads that failed at the ledger for different causes answer
\* their callers differently.
C27_CauseReported ==
    \A r1, r2 \in Requests :
        (/\ req[r1].pc = "Failed_ledger"
         /\ req[r2].pc = "Failed_ledger"
         /\ req[r1].error # req[r2].error)
           => req[r1].response # req[r2].response

\* ----------------------------------------------------------- the registries
\* C28: a step that changes device_registry or DEVICE_PUBLIC_KEYS is a step
\* of a register call and changes no upload request; a step of an upload
\* request changes neither map; no step takes a device id out of a map.
C28_OnlyRegisterWrites ==
    /\ [][(device_registry' # device_registry \/ DEVICE_PUBLIC_KEYS' # DEVICE_PUBLIC_KEYS)
            => /\ req' = req
               /\ \E i \in Registers :
                     /\ reg'[i] # reg[i]
                     /\ reg'[i].pc \in {"wrote_registry", "done"}
         ]_vars
    /\ [][\A d \in RegisterIds :
            /\ device_registry[d] # Absent => device_registry'[d] # Absent
            /\ DEVICE_PUBLIC_KEYS[d] # Absent => DEVICE_PUBLIC_KEYS'[d] # Absent
         ]_vars

\* Uploads of a registered device have ended, one rejected for its signature,
\* and the device is still in both maps.
C28_Witness ==
    \E r \in Requests :
        /\ req[r].pc = "Rejected_bad_signature"
        /\ device_registry[req[r].device_id] # Absent
        /\ DEVICE_PUBLIC_KEYS[req[r].device_id] # Absent
        /\ \A q \in Requests : req[q].pc \in Terminal

\* C29: when register calls run one at a time and none is between its two
\* writes, device_registry and DEVICE_PUBLIC_KEYS are the same map.
C29_RegistriesEqual ==
    NoRegisterRunning => device_registry = DEVICE_PUBLIC_KEYS

\* A register call has succeeded, another was refused, and a device is
\* registered.
C29_Witness ==
    /\ \E i, j \in Registers : reg[i].pc = "done" /\ reg[j].pc = "error_400"
    /\ \E d \in RegisterIds : DEVICE_PUBLIC_KEYS[d] # Absent

\* C30: when the loaded interface has no storeDataHash, an upload that has
\* entered the anchor stage has failed at the ledger for the missing function
\* with its content stored, has read no nonce and has signed and sent no
\* transaction, and the node has received nothing.
C30_MissingFunctionFailsFirst ==
    "storeDataHash" \notin contract_abi
       => /\ pending = {}
          /\ chain = <<>>
          /\ \A r \in Requests :
                Len(req[r].log) >= 4
                   => /\ req[r].pc = "Failed_ledger"
                      /\ req[r].error = "no_function"
                      /\ req[r].response.status_code = 500
                      /\ req[r].nonce_reads = 0
                      /\ req[r].nonce = None
                      /\ req[r].tx_sends = 0
                      /\ req[r].tx = None
                      /\ json_bytes(req[r].data) \in ipfs_store

C30_Witness ==
    /\ "storeDataHash" \notin contract_abi
    /\ \E r \in Requests :
          /\ req[r].pc = "Failed_ledger"
          /\ req[r].error = "no_function"
          /\ req[r].cid # None
====
